---- MODULE Spec2Model ----
(***************************************************************************)
(* State-machine model of src/scoreCheck.py, a Streamlit dashboard that    *)
(* turns five 0..100 sliders into a FICO-style score.                      *)
(*                                                                         *)
(* Streamlit re-runs the script top to bottom on every interaction, so an  *)
(* action of the model is one interaction (a slider moved, a button        *)
(* clicked) together with the whole script run it triggers.  The only      *)
(* state that survives a run is the widget state (the five sliders) and    *)
(* st.session_state.score_history; everything else is recomputed and shown.*)
(*                                                                         *)
(* Layout of the file.  Lines 1-174 are the script.  Line 175 glues        *)
(* st.caption(...) to a repeat of the conditional part of the narrative    *)
(* (lines 175-182) and of its st.write (line 184); these are complete      *)
(* top-level statements and are modelled as part of the run.  From the     *)
(* second half of line 185 on the file holds further pasted copies that    *)
(* begin in the middle of a statement; of these the model takes the pieces *)
(* that are complete statements: the later copy of the narrative (lines    *)
(* 240-262) and the short history tracker (lines 274-283).                 *)
(*                                                                         *)
(* Arithmetic.  The script computes in binary floating point; the model    *)
(* computes the same quantities exactly, in integer units (weighted_score  *)
(* in 1/10000).  The exact value of 300 + weighted_score*550 is a multiple *)
(* of 1/40, so it is either at least 1/40 away from a half (the float      *)
(* error, about 1e-13, cannot change the rounding) or exactly on a half.   *)
(* On a half the float sum lands on it or on either side of it (0.35, 0.30,*)
(* 0.15 and 0.10 are not binary fractions), so round() may give either     *)
(* neighbour: (100,17,22,71,65) gives 613 and (2,89,12,20,38) gives 493.   *)
(* Round therefore yields the set of both neighbours there.  Run over all  *)
(* 101^5 slider positions, the script's arithmetic gives the nearest       *)
(* integer off the halves and, on the halves, the lower neighbour at       *)
(* 132,110,225 positions and the upper at 130,668,045 (the odd one at      *)
(* 1,389,000).                                                             *)
(***************************************************************************)
EXTENDS Integers, Sequences, FiniteSets, TLC

VARIABLES
    payment_history,        \* slider, line 22
    credit_utilization,     \* slider, line 23
    length_credit_history,  \* slider, line 24
    credit_mix,             \* slider, line 25
    new_credit,             \* slider, line 26
    weighted_score,         \* line 29, in units of 1/10000
    fico_score,             \* line 37
    category,               \* lines 40-54
    color,                  \* lines 40-54
    progress,               \* line 61, in units of 1/850
    rec_output,             \* lines 102-106: what the recommendation section shows
    analysis,               \* the list `analysis` at the end of the run
    narrative,              \* the st.write outputs of the narrative, in order
    score_history,          \* st.session_state.score_history
    df,                     \* lines 126-128: the rows of the history table shown
    forecast                \* the forecast panel (forecasting variant)

sliders == <<payment_history, credit_utilization, length_credit_history,
             credit_mix, new_credit>>
outputs == <<weighted_score, fico_score, category, color, progress,
             rec_output, analysis, narrative>>
vars == <<sliders, outputs, score_history, df, forecast>>

----------------------------------------------------------------------------
(* Bounds of the model *)

\* saves per session
MaxSaves == 2

\* slider range, st.slider(label, 0, 100, default)
SliderMin == 0
SliderMax == 100
SliderRange == SliderMin..SliderMax

----------------------------------------------------------------------------
(* The score, lines 29-37 *)

\* mutant of Round: int(x), which truncates, in place of round(x)
RoundTruncates(num, den) == {num \div den}

\* round(x) for x = num/den, den > 0: the nearest integer; on an exact half
\* either neighbour (see the note on arithmetic above).
Round(num, den) ==
    LET q == num \div den
        r == num % den
    IN  IF 2 * r < den THEN {q}
        ELSE IF 2 * r > den THEN {q + 1}
        ELSE {q, q + 1}

\* mutant of WeightedScore: utilization counted against the score
WeightedScoreUtilizationInverted(p, u, l, m, n) ==
    p * 35 + (100 - u) * 30 + l * 15 + m * 10 + n * 10

\* mutant of WeightedScore: the weights of history length and credit mix
\* swapped
WeightedScoreWeightsSwapped(p, u, l, m, n) ==
    p * 35 + u * 30 + l * 10 + m * 15 + n * 10

\* weighted_score, in units of 1/10000:
\* (p/100)*0.35 + (u/100)*0.30 + (l/100)*0.15 + (m/100)*0.10 + (n/100)*0.10
WeightedScore(p, u, l, m, n) == p * 35 + u * 30 + l * 15 + m * 10 + n * 10

\* mutant of FicoScore: the weighted score scaled by the top of the range,
\* 850, in place of its width, 550
FicoScoreScaledByTop(ws, unit) == Round(300 * unit + ws * 850, unit)

\* fico_score = round(300 + (weighted_score * 550)), for ws in units of 1/unit
FicoScore(ws, unit) == Round(300 * unit + ws * 550, unit)

----------------------------------------------------------------------------
(* Score category, lines 40-54 *)

\* mutant of Category: the cut points inclusive on the upper end
CategoryInclusiveAbove(score) ==
    IF score <= 580 THEN "Poor"
    ELSE IF score <= 670 THEN "Fair"
    ELSE IF score <= 740 THEN "Good"
    ELSE IF score <= 800 THEN "Very Good"
    ELSE "Excellent"

Category(score) ==
    IF score < 580 THEN "Poor"
    ELSE IF 580 <= score /\ score < 670 THEN "Fair"
    ELSE IF 670 <= score /\ score < 740 THEN "Good"
    ELSE IF 740 <= score /\ score < 800 THEN "Very Good"
    ELSE "Excellent"

Color(score) ==
    IF score < 580 THEN "red"
    ELSE IF 580 <= score /\ score < 670 THEN "orange"
    ELSE IF 670 <= score /\ score < 740 THEN "green"
    ELSE IF 740 <= score /\ score < 800 THEN "blue"
    ELSE "purple"

\* st.progress(min(fico_score / 850, 1.0)), in units of 1/850
Progress(score) == IF score < 850 THEN score ELSE 850

----------------------------------------------------------------------------
(* Recommendations, lines 90-106 *)

RecPayment     == "Improve payment history by making all payments on time."
RecUtilization == "Reduce credit utilization below 30% of available credit."
RecLength      == "Keep older credit accounts open to build longer history."
RecMix         == "Add different credit types (e.g., installment + revolving)."
RecNewCredit   == "Limit new credit applications."
RecSuccess     == "Excellent! Your credit profile looks balanced and strong."

\* `if cond: lst.append(x)`
AppendIf(lst, cond, x) == IF cond THEN Append(lst, x) ELSE lst

\* mutant of Recommendations: the utilization rule fires from 30 on
RecommendationsUtilizationFrom30(p, u, l, m, n) ==
    LET r0 == << >>
        r1 == AppendIf(r0, p < 80, RecPayment)
        r2 == AppendIf(r1, u >= 30, RecUtilization)
        r3 == AppendIf(r2, l < 70, RecLength)
        r4 == AppendIf(r3, m < 60, RecMix)
        r5 == AppendIf(r4, n < 60, RecNewCredit)
    IN  r5

\* mutant of Recommendations: the utilization rule takes the threshold of
\* the narrative, 50
RecommendationsUtilizationAbove50(p, u, l, m, n) ==
    LET r0 == << >>
        r1 == AppendIf(r0, p < 80, RecPayment)
        r2 == AppendIf(r1, u > 50, RecUtilization)
        r3 == AppendIf(r2, l < 70, RecLength)
        r4 == AppendIf(r3, m < 60, RecMix)
        r5 == AppendIf(r4, n < 60, RecNewCredit)
    IN  r5

Recommendations(p, u, l, m, n) ==
    LET r0 == << >>
        r1 == AppendIf(r0, p < 80, RecPayment)
        r2 == AppendIf(r1, u > 30, RecUtilization)
        r3 == AppendIf(r2, l < 70, RecLength)
        r4 == AppendIf(r3, m < 60, RecMix)
        r5 == AppendIf(r4, n < 60, RecNewCredit)
    IN  r5

\* lines 102-106: one st.success, or one st.write per recommendation
Write(text)   == [call |-> "write", text |-> text]
Success(text) == [call |-> "success", text |-> text]

RecOutput(recommendations) ==
    IF recommendations = << >>
    THEN << Success(RecSuccess) >>
    ELSE [i \in 1..Len(recommendations) |-> Write(recommendations[i])]

----------------------------------------------------------------------------
(* Narrative, lines 152-184, and its later copy, lines 240-262 *)

TierExceptional == "Your credit profile is **exceptional**."
TierVeryGood    == "You have a **very good credit profile**."
TierGood        == "Your credit is in the **good range**."
TierFair        == "Your credit is **fair**."
TierPoor        == "Your score is **poor**."
SentUtilization == "Your **credit utilization is high**."
SentPayment     == "Your **payment history** shows missed or late payments."
SentLength      == "A **short credit history** limits your score."
SentNewCredit   == "Opening new accounts responsibly shows growth."

\* lines 152-163 (240-251): analysis = [] and the score-tier sentence
AnalysisTier(score) ==
    IF score >= 800 THEN << TierExceptional >>
    ELSE IF score >= 740 THEN << TierVeryGood >>
    ELSE IF score >= 670 THEN << TierGood >>
    ELSE IF score >= 580 THEN << TierFair >>
    ELSE << TierPoor >>

\* lines 165-172, repeated as lines 175-182 (and 253-260)
AnalysisConditions(lst, p, u, l, n) ==
    LET a1 == AppendIf(lst, u > 50, SentUtilization)
        a2 == AppendIf(a1, p < 70, SentPayment)
        a3 == AppendIf(a2, l < 50, SentLength)
        a4 == AppendIf(a3, n > 80, SentNewCredit)
    IN  a4

\* " ".join(lst)
RECURSIVE Join(_)
Join(lst) ==
    IF lst = << >> THEN ""
    ELSE IF Len(lst) = 1 THEN lst[1]
    ELSE lst[1] \o " " \o Join(Tail(lst))

\* The narrative part of the run, lines 152-184: the list is built and
\* written (line 174), then the conditional sentences are appended to the
\* same list a second time (lines 175-182) and it is written again (184).
Analysis(score, p, u, l, n) ==
    LET first  == AnalysisConditions(AnalysisTier(score), p, u, l, n)
        second == AnalysisConditions(first, p, u, l, n)
    IN  [analysis  |-> second,
         narrative |-> << Join(first), Join(second) >>]

\* The later copy, lines 240-262: built once, written once.
AnalysisLaterCopy(score, p, u, l, n) ==
    LET first == AnalysisConditions(AnalysisTier(score), p, u, l, n)
    IN  [analysis  |-> first,
         narrative |-> << Join(first) >>]

----------------------------------------------------------------------------
(* One run of the script over the slider values, lines 22-184 (the history *)
(* section, lines 112-128, is in the actions below).  The result is the    *)
(* set of outcomes: one, or two where the score is on a half.              *)

Script(p, u, l, m, n) ==
    LET ws == WeightedScore(p, u, l, m, n)
    IN  { [weighted_score |-> ws,
           fico_score     |-> s,
           category       |-> Category(s),
           color          |-> Color(s),
           progress       |-> Progress(s),
           rec_output     |-> RecOutput(Recommendations(p, u, l, m, n)),
           analysis       |-> Analysis(s, p, u, l, n).analysis,
           narrative      |-> Analysis(s, p, u, l, n).narrative]
          : s \in FicoScore(ws, 10000) }

\* the page after the run shows r
Show(r) ==
    /\ weighted_score' = r.weighted_score
    /\ fico_score' = r.fico_score
    /\ category' = r.category
    /\ color' = r.color
    /\ progress' = r.progress
    /\ rec_output' = r.rec_output
    /\ analysis' = r.analysis
    /\ narrative' = r.narrative

\* lines 126-128: the table is shown only when the history is not empty
HistoryTable(history) == IF history # << >> THEN history ELSE << >>

----------------------------------------------------------------------------
(* The session *)

\* slider defaults, lines 22-26
DefaultPaymentHistory == 85
DefaultCreditUtilization == 70
DefaultLengthCreditHistory == 65
DefaultCreditMix == 75
DefaultNewCredit == 60

NoForecast == [present |-> FALSE]

\* the page shows r
Shown(r) ==
    /\ weighted_score = r.weighted_score
    /\ fico_score = r.fico_score
    /\ category = r.category
    /\ color = r.color
    /\ progress = r.progress
    /\ rec_output = r.rec_output
    /\ analysis = r.analysis
    /\ narrative = r.narrative

\* The first run of a session: the sliders at their defaults, and
\* lines 112-113 create the empty history.
Init ==
    /\ payment_history = DefaultPaymentHistory
    /\ credit_utilization = DefaultCreditUtilization
    /\ length_credit_history = DefaultLengthCreditHistory
    /\ credit_mix = DefaultCreditMix
    /\ new_credit = DefaultNewCredit
    /\ \E r \in Script(DefaultPaymentHistory, DefaultCreditUtilization,
                       DefaultLengthCreditHistory, DefaultCreditMix,
                       DefaultNewCredit) : Shown(r)
    /\ score_history = << >>
    /\ df = HistoryTable(<< >>)
    /\ forecast = NoForecast

\* A run that is not triggered by a click of a save button: lines 115 and
\* 277 see False, the history is left alone and shown (lines 126-128).
NoSave ==
    /\ score_history' = score_history
    /\ df' = HistoryTable(score_history)
    /\ forecast' = forecast

\* The user moves a slider to v; the script runs with the new value.
SetPaymentHistory(v) ==
    /\ v \in SliderRange /\ v # payment_history
    /\ payment_history' = v
    /\ UNCHANGED <<credit_utilization, length_credit_history, credit_mix, new_credit>>
    /\ \E r \in Script(v, credit_utilization, length_credit_history,
                       credit_mix, new_credit) : Show(r)
    /\ NoSave

SetCreditUtilization(v) ==
    /\ v \in SliderRange /\ v # credit_utilization
    /\ credit_utilization' = v
    /\ UNCHANGED <<payment_history, length_credit_history, credit_mix, new_credit>>
    /\ \E r \in Script(payment_history, v, length_credit_history,
                       credit_mix, new_credit) : Show(r)
    /\ NoSave

SetLengthCreditHistory(v) ==
    /\ v \in SliderRange /\ v # length_credit_history
    /\ length_credit_history' = v
    /\ UNCHANGED <<payment_history, credit_utilization, credit_mix, new_credit>>
    /\ \E r \in Script(payment_history, credit_utilization, v,
                       credit_mix, new_credit) : Show(r)
    /\ NoSave

SetCreditMix(v) ==
    /\ v \in SliderRange /\ v # credit_mix
    /\ credit_mix' = v
    /\ UNCHANGED <<payment_history, credit_utilization, length_credit_history, new_credit>>
    /\ \E r \in Script(payment_history, credit_utilization,
                       length_credit_history, v, new_credit) : Show(r)
    /\ NoSave

SetNewCredit(v) ==
    /\ v \in SliderRange /\ v # new_credit
    /\ new_credit' = v
    /\ UNCHANGED <<payment_history, credit_utilization, length_credit_history, credit_mix>>
    /\ \E r \in Script(payment_history, credit_utilization,
                       length_credit_history, credit_mix, v) : Show(r)
    /\ NoSave

\* A run with the sliders as they are: floating-point arithmetic is
\* deterministic, so the run computes the score the page already shows.
Rerun(r) ==
    /\ r \in Script(payment_history, credit_utilization,
                    length_credit_history, credit_mix, new_credit)
    /\ r.fico_score = fico_score
    /\ UNCHANGED sliders
    /\ Show(r)

\* lines 116-124: the entry of the save button of the script
HistoryEntry(r) ==
    [Score             |-> r.fico_score,
     Category          |-> r.category,
     PaymentHistory    |-> payment_history,
     CreditUtilization |-> credit_utilization,
     LengthHistory     |-> length_credit_history,
     CreditMix         |-> credit_mix,
     NewCredit         |-> new_credit]

\* line 278: the entry of the short tracker
HistoryEntryShort(r) ==
    [Score |-> r.fico_score, Category |-> r.category]

\* "Save This Simulation" clicked, lines 115-128: the script runs, line 115
\* sees True, the entry is appended and the table shows the new history.
SaveSimulation ==
    /\ Len(score_history) < MaxSaves
    /\ \E r \in Script(payment_history, credit_utilization,
                       length_credit_history, credit_mix, new_credit) :
          /\ Rerun(r)
          /\ score_history' = Append(score_history, HistoryEntry(r))
    /\ df' = HistoryTable(score_history')
    /\ forecast' = forecast

\* The save button of the short tracker, lines 274-283.
SaveSimulationShort ==
    /\ Len(score_history) < MaxSaves
    /\ \E r \in Script(payment_history, credit_utilization,
                       length_credit_history, credit_mix, new_credit) :
          /\ Rerun(r)
          /\ score_history' = Append(score_history, HistoryEntryShort(r))
    /\ df' = HistoryTable(score_history')
    /\ forecast' = forecast

----------------------------------------------------------------------------
(* Forecast (forecasting variant).  Quantities with one decimal are kept   *)
(* in tenths: the jitter is drawn from [-2, 2] in steps of 0.1.            *)

\* improvement-rate control, range [0, 20]
RateMin == 0
RateMax == 20
\* jitter, uniform in [-2, 2], in tenths
JitterMin == -20
JitterMax == 20

\* per-factor multipliers of the improvement rate, in tenths:
\* 0.8, -0.5, 0.3, 0.2, 0.1
Multiplier == << 8, -5, 3, 2, 1 >>

\* mutant of Clamp: no upper limit
ClampBelowOnly(x) == IF x < 0 THEN 0 ELSE x

\* clamp to [0, 100], in tenths
Clamp(x) == IF x < 0 THEN 0 ELSE IF x > 1000 THEN 1000 ELSE x

\* factor + rate * per_factor_multiplier + random_offset, clamped, in tenths
Predicted(factor, i, rate, jitter) ==
    Clamp(factor * 10 + rate * Multiplier[i] + jitter)

PredictionInput(rate, jitter) ==
    [i \in 1..5 |-> Predicted(sliders[i], i, rate, jitter)]

\* the delta with explicit sign
Signed(d) == [sign |-> IF d >= 0 THEN "+" ELSE "-", digits |-> IF d >= 0 THEN d ELSE -d]

\* The forecast is requested with the given rate; the run draws one jitter
\* for the five factors, feeds the nudged factors through the score formula
\* and reports the predicted score and the delta.
Forecast(rate, jitter) ==
    /\ rate \in RateMin..RateMax
    /\ jitter \in JitterMin..JitterMax
    /\ \E r \in Script(payment_history, credit_utilization,
                       length_credit_history, credit_mix, new_credit) :
          /\ Rerun(r)
          /\ LET pin == PredictionInput(rate, jitter)
                 ws  == WeightedScore(pin[1], pin[2], pin[3], pin[4], pin[5])
             IN  \E ps \in FicoScore(ws, 100000) :
                    forecast' = [present         |-> TRUE,
                                 rate            |-> rate,
                                 jitter          |-> jitter,
                                 predicted       |-> pin,
                                 predicted_score |-> ps,
                                 delta           |-> ps - r.fico_score,
                                 delta_shown     |-> Signed(ps - r.fico_score)]
    /\ UNCHANGED <<score_history, df>>

----------------------------------------------------------------------------
(* Slider positions explored: the ends of the range, the defaults         *)
(* and both sides of every threshold of the rules (lines 91-99, 165-171)  *)

PaymentValues     == {0, 69, 70, 79, 80, 85, 100}
UtilizationValues == {0, 30, 31, 50, 51, 70, 100}
LengthValues      == {0, 49, 50, 65, 69, 70, 100}
MixValues         == {0, 59, 60, 75, 100}
NewCreditValues   == {0, 59, 60, 80, 81, 100}

NextSliders ==
    \/ \E v \in PaymentValues : SetPaymentHistory(v)
    \/ \E v \in UtilizationValues : SetCreditUtilization(v)
    \/ \E v \in LengthValues : SetLengthCreditHistory(v)
    \/ \E v \in MixValues : SetCreditMix(v)
    \/ \E v \in NewCreditValues : SetNewCredit(v)

SpecSliders == Init /\ [][NextSliders]_vars

\* The session with the save button of the script (lines 112-128); the
\* sliders move between their defaults and one other position each.
SessionPayment     == {DefaultPaymentHistory, 100}
SessionUtilization == {DefaultCreditUtilization, 30}
SessionLength      == {DefaultLengthCreditHistory, 100}
SessionMix         == {DefaultCreditMix, 100}
SessionNewCredit   == {DefaultNewCredit, 100}

NextSession ==
    \/ \E v \in SessionPayment : SetPaymentHistory(v)
    \/ \E v \in SessionUtilization : SetCreditUtilization(v)
    \/ \E v \in SessionLength : SetLengthCreditHistory(v)
    \/ \E v \in SessionMix : SetCreditMix(v)
    \/ \E v \in SessionNewCredit : SetNewCredit(v)

Next ==
    \/ NextSession
    \/ SaveSimulation

Spec == Init /\ [][Next]_vars

\* The session with the save button of the short tracker (lines 274-283).
NextShort ==
    \/ NextSession
    \/ SaveSimulationShort

SpecShort == Init /\ [][NextShort]_vars

\* The forecast over slider positions at the ends of the range and at the
\* defaults.
ForecastPayment     == {0, DefaultPaymentHistory, 100}
ForecastUtilization == {0, DefaultCreditUtilization, 100}
ForecastLength      == {0, DefaultLengthCreditHistory, 100}
ForecastMix         == {0, DefaultCreditMix, 100}
ForecastNewCredit   == {0, DefaultNewCredit, 100}

InitForecast ==
    /\ payment_history \in ForecastPayment
    /\ credit_utilization \in ForecastUtilization
    /\ length_credit_history \in ForecastLength
    /\ credit_mix \in ForecastMix
    /\ new_credit \in ForecastNewCredit
    /\ \E r \in Script(payment_history, credit_utilization,
                       length_credit_history, credit_mix, new_credit) : Shown(r)
    /\ score_history = << >>
    /\ df = HistoryTable(<< >>)
    /\ forecast = NoForecast

\* one forecast per drawn slider position
NextForecast ==
    /\ ~forecast.present
    /\ \E rate \in RateMin..RateMax, jitter \in JitterMin..JitterMax :
          Forecast(rate, jitter)

SpecForecast == InitForecast /\ [][NextForecast]_vars

----------------------------------------------------------------------------
(* Properties *)

Defaults == << DefaultPaymentHistory, DefaultCreditUtilization,
               DefaultLengthCreditHistory, DefaultCreditMix, DefaultNewCredit >>

\* 40 times the exact value of 300 + 550 * weighted_score, which is
\* 300 + 11 * (7p + 6u + 3l + 2m + 2n) / 40
Exact40 ==
    12000 + 11 * (7 * payment_history + 6 * credit_utilization
                  + 3 * length_credit_history + 2 * credit_mix + 2 * new_credit)

\* C1: the score is the integer nearest to 300 + 11*(7p+6u+3l+2m+2n)/40;
\* where that value is exactly halfway between two integers the score is
\* one of the two neighbours.
ScoreIsNearestInteger ==
    /\ 40 * fico_score - Exact40 <= 20
    /\ Exact40 - 40 * fico_score <= 20

\* C1 witness: a halfway value (679.5) after the sliders were moved there;
\* the script shows its lower neighbour, which is odd.
ScoreOnAHalf ==
    /\ sliders = << 70, 70, 50, 60, 100 >>
    /\ Exact40 = 40 * 679 + 20
    /\ fico_score = 679

\* C2: the score is within 300..850, all factors 0 give 300, all factors
\* 100 give 850, and the progress value min(score/850, 1) is in [0, 1].
ScoreInRange ==
    /\ fico_score \in 300..850
    /\ sliders = << 0, 0, 0, 0, 0 >> => fico_score = 300
    /\ sliders = << 100, 100, 100, 100, 100 >> => fico_score = 850
    /\ progress \in 0..850
    /\ progress = fico_score

\* C2 witness: the upper bound is attained with every slider at 100.
ScoreAtUpperBound ==
    /\ sliders = << 100, 100, 100, 100, 100 >>
    /\ fico_score = 850
    /\ progress = 850

ColourOf(c) ==
    CASE c = "Poor" -> "red"
      [] c = "Fair" -> "orange"
      [] c = "Good" -> "green"
      [] c = "Very Good" -> "blue"
      [] c = "Excellent" -> "purple"

CutPoints(c, s) ==
    /\ c \in {"Poor", "Fair", "Good", "Very Good", "Excellent"}
    /\ c = "Poor" <=> s < 580
    /\ c = "Fair" <=> (580 <= s /\ s <= 669)
    /\ c = "Good" <=> (670 <= s /\ s <= 739)
    /\ c = "Very Good" <=> (740 <= s /\ s <= 799)
    /\ c = "Excellent" <=> s >= 800

\* C3: classification splits 300..850 into the five categories at the cut
\* points 580, 670, 740, 800 (inclusive below), every score gets exactly
\* one category, and the colour tag is the one paired with the category.
ClassificationIsPartition ==
    /\ \A s \in 300..850 :
          /\ CutPoints(Category(s), s)
          /\ Color(s) = ColourOf(Category(s))
    /\ CutPoints(category, fico_score)
    /\ color = ColourOf(category)

\* C3 witness: a score on a cut point (740 exactly) falls into the upper
\* bucket.
ScoreOnCutPoint ==
    /\ sliders = << 69, 100, 69, 75, 80 >>
    /\ fico_score = 740
    /\ category = "Very Good"
    /\ color = "blue"

\* the rules of the recommendation section, in their fixed order
ExpectedRecommendations ==
       (IF payment_history < 80 THEN << RecPayment >> ELSE << >>)
    \o (IF credit_utilization > 30 THEN << RecUtilization >> ELSE << >>)
    \o (IF length_credit_history < 70 THEN << RecLength >> ELSE << >>)
    \o (IF credit_mix < 60 THEN << RecMix >> ELSE << >>)
    \o (IF new_credit < 60 THEN << RecNewCredit >> ELSE << >>)

NoRuleFires ==
    /\ payment_history >= 80
    /\ credit_utilization <= 30
    /\ length_credit_history >= 70
    /\ credit_mix >= 60
    /\ new_credit >= 60

Texts(output, call) ==
    SelectSeq(output, LAMBDA o : o.call = call)

FullEntry ==
    [Score             |-> fico_score',
     Category          |-> category',
     PaymentHistory    |-> payment_history',
     CreditUtilization |-> credit_utilization',
     LengthHistory     |-> length_credit_history',
     CreditMix         |-> credit_mix',
     NewCredit         |-> new_credit']

\* C5: the history starts empty, a save (the only interaction that leaves
\* the sliders as they are) appends exactly one entry holding the five
\* factor values, the score and the category current at that save, and
\* every other interaction leaves the history unchanged.
HistoryIsAppendOnlyWithFullEntries ==
    [][ IF sliders' = sliders
        THEN score_history' = Append(score_history, FullEntry)
        ELSE score_history' = score_history ]_vars

\* C5 on the save button of the script (lines 112-128): under Spec,
\* where HistoryIsAppendOnlyWithFullEntries holds.
HistoryRowsAreFull ==
    \A i \in 1..Len(score_history) :
        DOMAIN score_history[i] =
            {"Score", "Category", "PaymentHistory", "CreditUtilization",
             "LengthHistory", "CreditMix", "NewCredit"}

\* C6: raising one factor with the others held fixed never lowers the score.
ScoreIsMonotone ==
    [][ (\A i \in 1..5 : sliders'[i] >= sliders[i]) => fico_score' >= fico_score ]_vars

\* C6 witness: payment history raised from its default to 100, the other
\* sliders at their defaults: the score went up from 707 to 736.
ScoreRaised ==
    /\ sliders = << 100, DefaultCreditUtilization, DefaultLengthCreditHistory,
                    DefaultCreditMix, DefaultNewCredit >>
    /\ fico_score = 736

\* C7 as stated: at (85, 70, 65, 75, 60) the weighted score is 0.7475, the
\* score 711 and the category Good.
DefaultExampleAsStated ==
    sliders = Defaults =>
        /\ weighted_score = 7475
        /\ fico_score = 711
        /\ category = "Good"

\* C7 amended: at (85, 70, 65, 75, 60) the weighted score is 0.74, the score
\* 707 and the category Good.
DefaultExample ==
    sliders = Defaults =>
        /\ weighted_score = 7400
        /\ fico_score = 707
        /\ category = "Good"

\* C7 witness: the page at the default sliders.
DefaultPage ==
    /\ sliders = Defaults
    /\ fico_score = 707
    /\ category = "Good"

\* C8: every predicted factor lies in [0, 100], the predicted score in
\* [300, 850], and the delta is predicted score minus current score, shown
\* with its sign.
ForecastInRange ==
    forecast.present =>
        /\ \A i \in 1..5 : forecast.predicted[i] \in 0..1000
        /\ \A i \in 1..5 :
              LET raw == sliders[i] * 10 + forecast.rate * Multiplier[i]
                         + forecast.jitter
              IN  /\ raw \in 0..1000 => forecast.predicted[i] = raw
                  /\ raw < 0 => forecast.predicted[i] = 0
                  /\ raw > 1000 => forecast.predicted[i] = 1000
        /\ forecast.predicted_score \in 300..850
        /\ forecast.delta = forecast.predicted_score - fico_score
        /\ forecast.delta_shown.sign = "+" <=> forecast.predicted_score >= fico_score
        /\ forecast.delta_shown.sign = "-" <=> forecast.predicted_score < fico_score
        /\ forecast.delta_shown.digits \in {forecast.delta, -forecast.delta}
        /\ forecast.delta_shown.digits >= 0

\* C8 witness: a forecast with every slider at 100 and the rate at 20:
\* payment history is clamped at 100, utilization is lowered, and the
\* predicted score is below the current one.
ForecastClamped ==
    /\ forecast.present
    /\ sliders = << 100, 100, 100, 100, 100 >>
    /\ forecast.rate = 20
    /\ forecast.predicted[1] = 1000
    /\ forecast.predicted[2] < 1000
    /\ forecast.delta < 0
    /\ forecast.delta_shown.sign = "-"

TierOf(c) ==
    CASE c = "Excellent" -> TierExceptional
      [] c = "Very Good" -> TierVeryGood
      [] c = "Good" -> TierGood
      [] c = "Fair" -> TierFair
      [] c = "Poor" -> TierPoor

ExpectedNarrative ==
    Join(<< TierOf(category) >>
         \o (IF credit_utilization > 50 THEN << SentUtilization >> ELSE << >>)
         \o (IF payment_history < 70 THEN << SentPayment >> ELSE << >>)
         \o (IF length_credit_history < 50 THEN << SentLength >> ELSE << >>)
         \o (IF new_credit > 80 THEN << SentNewCredit >> ELSE << >>))

\* C9: the narrative is the single-space join of the score-tier sentence of
\* the category and the conditional sentences whose condition holds, each
\* once, in the fixed order, and it is written once per evaluation.
NarrativeWrittenOnce ==
    narrative = << ExpectedNarrative >>

\* C9 on the later copy (lines 240-262), which builds the list once and
\* writes it once.
NarrativeOfLaterCopy ==
    AnalysisLaterCopy(fico_score, payment_history, credit_utilization,
                      length_credit_history, new_credit).narrative
        = << ExpectedNarrative >>

\* C10: with a score of 740 or more the utilization recommendation is
\* shown; where no rule fires the score lies in 578..735, so the fallback
\* message appears with the category Poor, Fair or Good only.
FallbackOnlyBelowVeryGood ==
    /\ fico_score >= 740 =>
          \E i \in 1..Len(rec_output) : rec_output[i] = Write(RecUtilization)
    /\ rec_output = << Success(RecSuccess) >> =>
          /\ fico_score \in 578..735
          /\ category \in {"Poor", "Fair", "Good"}

\* C10 witness: the fallback message shown with the category Poor.
FallbackWithPoor ==
    /\ rec_output = << Success(RecSuccess) >>
    /\ fico_score = 578
    /\ category = "Poor"

====
